---- MODULE Spec2Model ----
(***************************************************************************)
(* Model of the checkmk.py HTTP transport (src/checkmk/http.py), its       *)
(* resource gateway (CheckmkHTTP) and the acknowledge operations of Host   *)
(* and Service (src/checkmk/host.py, src/checkmk/service.py).              *)
(*                                                                         *)
(* Python strings that the code inspects (header values, response bodies)  *)
(* are sequences of one-character strings, so that the substring tests and *)
(* int() are computed as the code computes them.                           *)
(***************************************************************************)
EXTENDS Integers, Sequences, FiniteSets, TLC

VARIABLES ratelimit_lock, call, client

vars == <<ratelimit_lock, call, client>>

(***************************************************************************)
(* Bounds of the model.                                                    *)
(***************************************************************************)
\* largest max_retries a direct caller of HTTPClient.request passes
MaxRetries == 3
\* largest numeric state code of an entity (0 = no problem)
MaxStateCode == 2
\* largest number of ClientSession objects one HTTPClient creates
MaxSessions == 2
\* largest number of transport calls issued for one entity object
MaxRequests == 2
\* largest number of HTTPClient.close calls
MaxCloses == 2

\* request(..., max_retries: int = 3, ...)
DefaultMaxRetries == 3
\* HTTPClient.__init__(..., retries: int = 5)
HTTPClientDefaultRetries == 5
\* Client.__init__(..., retries: int = 5, ...)
ClientDefaultRetries == 5

Callers == {"c1", "c2"}
\* Spec runs the operations of one caller after another
SeqCallers == {"c1"}

(***************************************************************************)
(* Python strings as character sequences.                                  *)
(***************************************************************************)
S_json == <<"j","s","o","n">>
S_application_json == <<"a","p","p","l","i","c","a","t","i","o","n","/","j","s","o","n">>
S_text_json == <<"t","e","x","t","/","j","s","o","n">>
S_text_plain == <<"t","e","x","t","/","p","l","a","i","n">>
S_value == <<"v","a","l","u","e">>
S_60 == <<"6","0">>
S_5 == <<"5">>
S_http_date == <<"W","e","d",","," ","2","1"," ","O","c","t">>

\* response bodies
T_value_obj == <<"{","\"","v","a","l","u","e","\"",":","[","]","}">>
T_unexpected_obj == <<"{","\"","u","n","e","x","p","e","c","t","e","d","\"",":","1","}">>
T_no_value == <<"n","o"," ","v","a","l","u","e">>
T_oops == <<"o","o","p","s">>
T_empty == <<>>

\* Python: sub in s, for two strings
str_contains(sub, s) ==
    \E i \in 0..(Len(s) - Len(sub)) : SubSeq(s, i + 1, i + Len(sub)) = sub

Digits == {"0","1","2","3","4","5","6","7","8","9"}

DigitValue(ch) ==
    CASE ch = "0" -> 0 [] ch = "1" -> 1 [] ch = "2" -> 2 [] ch = "3" -> 3
      [] ch = "4" -> 4 [] ch = "5" -> 5 [] ch = "6" -> 6 [] ch = "7" -> 7
      [] ch = "8" -> 8 [] ch = "9" -> 9

RECURSIVE DecimalValue(_)
DecimalValue(s) ==
    IF s = <<>> THEN 0
    ELSE 10 * DecimalValue(SubSeq(s, 1, Len(s) - 1)) + DigitValue(s[Len(s)])

\* Python int(s) on a string of decimal digits; anything else raises ValueError
\* (signs, blanks and underscores, which int() also accepts, are not drawn)
py_int(s) ==
    IF s # <<>> /\ \A i \in 1..Len(s) : s[i] \in Digits
    THEN [exc |-> "none", value |-> DecimalValue(s)]
    ELSE [exc |-> "ValueError", value |-> 0]

(***************************************************************************)
(* Python values handed around as payloads.                                *)
(***************************************************************************)
PyNone == [type |-> "none", keys |-> {}, elems |-> <<>>]
PyTrue == [type |-> "True", keys |-> {}, elems |-> <<>>]
PyDict(keys) == [type |-> "dict", keys |-> keys, elems |-> <<>>]
PyStr(chars) == [type |-> "str", keys |-> {}, elems |-> chars]

\* Python truth value of a payload
truthy(p) ==
    CASE p.type = "none" -> FALSE
      [] p.type = "True" -> TRUE
      [] p.type = "dict" -> p.keys # {}
      [] p.type = "str" -> p.elems # <<>>

\* Python: "value" in p  (key test on a dict, substring test on a str)
value_in(p) ==
    CASE p.type = "dict" -> "value" \in p.keys
      [] p.type = "str" -> str_contains(S_value, p.elems)
      [] OTHER -> FALSE

(***************************************************************************)
(* Responses and per-attempt outcomes.                                     *)
(***************************************************************************)
Header(v) == [present |-> TRUE, val |-> v]
NoHeader == [present |-> FALSE, val |-> <<>>]

\* headers.get(name, default)
headers_get(h, default) == IF h.present THEN h.val ELSE default

ServerErrorStatuses == {500, 502, 504, 503, 524}

ContentTypes == {NoHeader, Header(S_application_json), Header(S_text_json),
                 Header(S_text_plain)}
Bodies == {T_value_obj, T_unexpected_obj, T_no_value, T_empty}
RetryAfters == {NoHeader, Header(S_5), Header(S_http_date)}

Response(st, ct, ra, b) ==
    [status |-> st, content_type |-> ct, retry_after |-> ra, body |-> b]

NoResponse == Response(0, NoHeader, NoHeader, <<>>)

\* the responses a server is drawn to answer with
Responses ==
    {Response(st, ct, NoHeader, b) : st \in {200, 299}, ct \in ContentTypes, b \in Bodies}
    \cup {Response(429, Header(S_application_json), ra, T_oops) : ra \in RetryAfters}
    \cup {Response(st, Header(S_application_json), NoHeader, T_oops) :
             st \in {401, 403, 404, 400, 501} \cup ServerErrorStatuses}

\* what one attempt of session.request can end in
Outcomes ==
    {[kind |-> "response", response |-> r] : r \in Responses}
    \cup {[kind |-> "ClientError", response |-> NoResponse],
          [kind |-> "TimeoutError", response |-> NoResponse]}

(***************************************************************************)
(* Results of a call: nothing yet, a returned value or a raised exception. *)
(***************************************************************************)
NoResult ==
    [kind |-> "none", value |-> PyNone, error |-> "none", status_code |-> 0,
     cause |-> "none"]
Returned(v) ==
    [kind |-> "return", value |-> v, error |-> "none", status_code |-> 0,
     cause |-> "none"]
\* an exception of class e; status_code is the HTTPError's status (0: not an HTTPError)
Raised(e, st) ==
    [kind |-> "raise", value |-> PyNone, error |-> e, status_code |-> st,
     cause |-> "none"]
\* raise e(...) from cause
RaisedFrom(e, cause) ==
    [kind |-> "raise", value |-> PyNone, error |-> e, status_code |-> 0,
     cause |-> cause]

(***************************************************************************)
(* json_or_text (http.py 79-87).                                           *)
(***************************************************************************)
\* json.loads of the bodies drawn: the parsed object, or JSONDecodeError
json_loads(text) ==
    CASE text = T_value_obj -> [exc |-> "none", value |-> PyDict({"value"})]
      [] text = T_unexpected_obj -> [exc |-> "none", value |-> PyDict({"unexpected"})]
      [] OTHER -> [exc |-> "JSONDecodeError", value |-> PyNone]

\* resp.json(content_type=None): no content-type check, the body is parsed
resp_json(resp) == json_loads(resp.body)

\* resp.text()
resp_text(resp) == [exc |-> "none", value |-> PyStr(resp.body)]

\* a json_or_text without the except clause: the decode error leaves it
json_or_text_strict(resp) ==
    LET ctype == headers_get(resp.content_type, <<>>)
    IN  IF str_contains(S_application_json, ctype) \/ str_contains(S_json, ctype)
        THEN resp_json(resp)
        ELSE resp_text(resp)

json_or_text(resp) ==
    LET ctype == headers_get(resp.content_type, <<>>)
    IN  IF str_contains(S_application_json, ctype) \/ str_contains(S_json, ctype)
        THEN LET j == resp_json(resp)
             IN  IF j.exc \in {"JSONDecodeError", "ContentTypeError"}
                 THEN resp_text(resp)
                 ELSE j
        ELSE resp_text(resp)

(***************************************************************************)
(* One iteration of the retry loop of HTTPClient.request (http.py 162-216).*)
(***************************************************************************)
\* a success test that knows 200 only
is_success_only_200(status) == status = 200

\* 200 <= response.status < 300
is_success(status) == 200 <= status /\ status < 300

\* a test that always finds attempts remaining
attempts_remain_always(attempt, max_retries) == TRUE

\* attempt < max_retries - 1
attempts_remain(attempt, max_retries) == attempt < max_retries - 1

\* a backoff of one second whatever the attempt
backoff_constant(attempt) == 1

\* a backoff that starts at 2 s
backoff_from_two(attempt) == 2 ^ (attempt + 1)

\* backoff = 2**attempt
backoff(attempt) == 2 ^ attempt

\* int(response.headers.get("Retry-After", "60"))
retry_after(resp) == py_int(headers_get(resp.retry_after, S_60))

\* a status chain with no branch for 403
terminal_error_without_403(status) ==
    CASE status = 401 -> "Unauthorized"
      [] status = 404 -> "NotFound"
      [] OTHER -> "none"

\* the exception raised at once for a status (http.py 186-193), "none" for the rest
terminal_error(status) ==
    CASE status = 401 -> "Unauthorized"
      [] status = 403 -> "Forbidden"
      [] status = 404 -> "NotFound"
      [] OTHER -> "none"

StepReturn(v) == [next |-> "return", result |-> Returned(v), secs |-> 0]
StepRaise(e, st) == [next |-> "raise", result |-> Raised(e, st), secs |-> 0]
StepSleep(d) == [next |-> "sleep", result |-> NoResult, secs |-> d]
\* no branch of the status chain matched: the loop body ends
StepFallThrough == [next |-> "fallthrough", result |-> NoResult, secs |-> 0]

\* the status chain inside "async with ... as response" (http.py 169-205)
classify(resp, attempt, max_retries) ==
    LET data == json_or_text(resp)
        status == resp.status
    IN  IF data.exc # "none" THEN StepRaise(data.exc, 0)
        ELSE IF is_success(status) THEN StepReturn(data.value)
        ELSE IF status = 429
        THEN IF attempts_remain(attempt, max_retries)
             THEN LET ra == retry_after(resp)
                  IN  IF ra.exc # "none" THEN StepRaise(ra.exc, 0)
                      ELSE StepSleep(ra.value)
             ELSE StepRaise("TooManyRequests", status)
        ELSE IF terminal_error(status) # "none"
        THEN StepRaise(terminal_error(status), status)
        ELSE IF status \in ServerErrorStatuses
        THEN IF attempts_remain(attempt, max_retries)
             THEN StepSleep(backoff(attempt))
             ELSE StepRaise("ServiceUnavailable", status)
        ELSE StepFallThrough

\* an except clause that ends the last attempt with a generic failure
on_client_error_generic(attempt, max_retries) ==
    IF attempts_remain(attempt, max_retries)
    THEN StepSleep(backoff(attempt))
    ELSE StepRaise("RuntimeError", 0)

\* an except clause that wraps the final fault in a library error
on_client_error_wrapped(attempt, max_retries) ==
    IF attempts_remain(attempt, max_retries)
    THEN StepSleep(backoff(attempt))
    ELSE StepRaise("ServiceUnavailable", 0)

\* except aiohttp.ClientError (http.py 207-216)
on_client_error(attempt, max_retries) ==
    IF attempts_remain(attempt, max_retries)
    THEN StepSleep(backoff(attempt))
    ELSE StepRaise("ClientError", 0)

\* the try statement of one iteration; the session's total timeout raises
\* TimeoutError, which "except aiohttp.ClientError" does not catch
iteration(o, attempt, max_retries) ==
    CASE o.kind = "response" -> classify(o.response, attempt, max_retries)
      [] o.kind = "ClientError" -> on_client_error(attempt, max_retries)
      [] o.kind = "TimeoutError" -> StepRaise("TimeoutError", 0)

\* the for statement: after a loop body that fell through, the next iteration, or
\* past the loop "raise RuntimeError(...)" (http.py 162, 217)
loop_has_next(attempt, max_retries) == attempt + 1 < max_retries

(***************************************************************************)
(* The resource gateway CheckmkHTTP (http.py 260-369): what each operation *)
(* makes of the result of its HTTPClient.request call.                     *)
(***************************************************************************)
\* a get_hosts that answers a failed transport call with an empty result
get_hosts_result_lenient(t) ==
    IF t.kind = "raise" THEN Returned(PyDict({}))
    ELSE IF ~truthy(t.value) \/ ~value_in(t.value) THEN Raised("HostParseError", 0)
    ELSE Returned(t.value)

\* get_hosts: except Exception -> HostFetchError from e; the "value" check
get_hosts_result(t) ==
    IF t.kind = "raise" THEN RaisedFrom("HostFetchError", t.error)
    ELSE IF ~truthy(t.value) \/ ~value_in(t.value) THEN Raised("HostParseError", 0)
    ELSE Returned(t.value)

\* get_services: except Exception -> ServiceFetchError from e; the "value" check
get_services_result(t) ==
    IF t.kind = "raise" THEN RaisedFrom("ServiceFetchError", t.error)
    ELSE IF ~truthy(t.value) \/ ~value_in(t.value) THEN Raised("ServiceParseError", 0)
    ELSE Returned(t.value)

\* add_service_comment: return await self.client.request(...)
add_service_comment_result(t) == t

\* add_host_comment: return await self.client.request(...)
add_host_comment_result(t) == t

\* add_host_acknowledgement: await self.client.request(...); return True
add_host_acknowledgement_result(t) ==
    IF t.kind = "raise" THEN t ELSE Returned(PyTrue)

\* add_service_acknowledgement: await self.client.request(...); return True
add_service_acknowledgement_result(t) ==
    IF t.kind = "raise" THEN t ELSE Returned(PyTrue)

\* the exception classes deriving from ParseError and FetchError (exceptions.py)
ParseErrors == {"HostParseError", "ServiceParseError"}
FetchErrors == {"HostFetchError", "ServiceFetchError"}

\* what the operation op hands to its caller for the transport result t
op_result(op, t) ==
    CASE op = "request" -> t
      [] op = "get_hosts" -> get_hosts_result(t)
      [] op = "get_services" -> get_services_result(t)
      [] op = "add_service_comment" -> add_service_comment_result(t)
      [] op = "add_host_comment" -> add_host_comment_result(t)
      [] op = "add_host_acknowledgement" -> add_host_acknowledgement_result(t)
      [] op = "add_service_acknowledgement" -> add_service_acknowledgement_result(t)
      [] op = "Host_acknowledge" -> add_host_acknowledgement_result(t)
      [] op = "Service_acknowledge" -> add_service_acknowledgement_result(t)

(***************************************************************************)
(* Host and Service entities (host.py 201-256, service.py 216-279).        *)
(***************************************************************************)
StateCodes == 0..MaxStateCode

Entities ==
    [kind : {"host", "service"}, acknowledged : BOOLEAN, state : StateCodes]
NoEntity == [kind |-> "none", acknowledged |-> FALSE, state |-> 0]

\* property acknowledged
acknowledged(e) == e.acknowledged

\* property problem: self.state.value != 0 (the enum member's value is the code)
problem(e) == e.state # 0

\* checks that leave out "if not self.problem"
Host_acknowledge_check_no_problem_test(e) ==
    IF acknowledged(e) THEN "HostProblemAlreadyAcknowledgedError"
    ELSE "none"

\* the exception the checks of Host.acknowledge raise, "none" when both pass
Host_acknowledge_check(e) ==
    IF acknowledged(e) THEN "HostProblemAlreadyAcknowledgedError"
    ELSE IF ~problem(e) THEN "HostNoProblemError"
    ELSE "none"

\* checks that test "not self.problem" first
Service_acknowledge_check_problem_first(e) ==
    IF ~problem(e) THEN "ServiceNoProblemError"
    ELSE IF acknowledged(e) THEN "ServiceProblemAlreadyAcknowledgedError"
    ELSE "none"

\* the exception the checks of Service.acknowledge raise, "none" when both pass
Service_acknowledge_check(e) ==
    IF acknowledged(e) THEN "ServiceProblemAlreadyAcknowledgedError"
    ELSE IF ~problem(e) THEN "ServiceNoProblemError"
    ELSE "none"

DomainErrors ==
    {"HostProblemAlreadyAcknowledgedError", "HostNoProblemError",
     "ServiceProblemAlreadyAcknowledgedError", "ServiceNoProblemError"}

(***************************************************************************)
(* Request construction: Route (http.py 69-76), APIAuth (models.py 31-43), *)
(* the endpoints (constants.py) and the keyword arguments HTTPClient.      *)
(* request builds before it takes the lock (http.py 137-158).              *)
(***************************************************************************)
CHECKMK_SERVICES_ENDPOINT ==
    <<"d","o","m","a","i","n","-","t","y","p","e","s","/","s","e","r","v","i","c",
      "e","/","c","o","l","l","e","c","t","i","o","n","s","/","a","l","l">>
CHECKMK_HOSTS_ENDPOINT ==
    <<"d","o","m","a","i","n","-","t","y","p","e","s","/","h","o","s","t","/","c",
      "o","l","l","e","c","t","i","o","n","s","/","a","l","l">>
CHECKMK_ADD_SERVICE_COMMENT_ENDPOINT ==
    <<"d","o","m","a","i","n","-","t","y","p","e","s","/","c","o","m","m","e","n",
      "t","/","c","o","l","l","e","c","t","i","o","n","s","/","s","e","r","v","i",
      "c","e">>
CHECKMK_ADD_HOST_COMMENT_ENDPOINT ==
    <<"d","o","m","a","i","n","-","t","y","p","e","s","/","c","o","m","m","e","n",
      "t","/","c","o","l","l","e","c","t","i","o","n","s","/","h","o","s","t">>
CHECKMK_ACKNOWLEDGE_SERVICE_ENDPOINT ==
    <<"d","o","m","a","i","n","-","t","y","p","e","s","/","a","c","k","n","o","w",
      "l","e","d","g","e","/","c","o","l","l","e","c","t","i","o","n","s","/","s",
      "e","r","v","i","c","e">>
CHECKMK_ACKNOWLEDGE_HOST_ENDPOINT ==
    <<"d","o","m","a","i","n","-","t","y","p","e","s","/","a","c","k","n","o","w",
      "l","e","d","g","e","/","c","o","l","l","e","c","t","i","o","n","s","/","h",
      "o","s","t">>

\* base URLs and paths a Route is built from
S_base_slash == <<"h","t","t","p","s",":","/","/","h","/","a","p","i","/">>
S_base_no_slash == <<"h","t","t","p","s",":","/","/","h","/","a","p","i">>
S_path_x == <<"x">>
S_path_slash_x == <<"/","x">>

\* header values
S_text_html == <<"t","e","x","t","/","h","t","m","l">>
\* "checkmk.py {0}) Python/{1[0]}.{1[1]} aiohttp/{2}".format(version, info, aiohttp)
user_agent_format(version, major, minor, aiohttp_version) ==
    <<"c","h","e","c","k","m","k",".","p","y"," ">> \o version
    \o <<")"," ","P","y","t","h","o","n","/">> \o major \o <<".">> \o minor
    \o <<" ","a","i","o","h","t","t","p","/">> \o aiohttp_version
\* self.user_agent for one installation
S_user_agent == user_agent_format(<<"0",".","1">>, <<"3">>, <<"1","2">>, <<"3",".","9">>)
S_Basic == <<"B","a","s","i","c"," ">>
S_Bearer == <<"B","e","a","r","e","r"," ">>
S_caller_token == <<"T","o","k","e","n"," ","t">>

\* the printable ASCII characters, from code 32 on (the grave accent, code 96, is
\* written out), and the base64 alphabet
Ascii ==
    <<" ","!","\"","#","$","%","&","'","(",")","*","+",",","-",".","/","0","1","2",
      "3","4","5","6","7","8","9",":",";","<","=",">","?","@","A","B","C","D","E",
      "F","G","H","I","J","K","L","M","N","O","P","Q","R","S","T","U","V","W","X",
      "Y","Z","[","\\","]","^","_","grave","a","b","c","d","e","f","g","h","i","j","k",
      "l","m","n","o","p","q","r","s","t","u","v","w","x","y","z","{","|","}","~">>
B64Alphabet ==
    <<"A","B","C","D","E","F","G","H","I","J","K","L","M","N","O","P","Q","R","S",
      "T","U","V","W","X","Y","Z","a","b","c","d","e","f","g","h","i","j","k","l",
      "m","n","o","p","q","r","s","t","u","v","w","x","y","z","0","1","2","3","4",
      "5","6","7","8","9","+","/">>

\* the byte of a character (str.encode on ASCII text)
Ord(ch) == 31 + CHOOSE i \in 1..Len(Ascii) : Ascii[i] = ch

B64Char(n) == B64Alphabet[n + 1]

\* base64.b64encode(...).decode() of a string
RECURSIVE b64encode(_)
b64encode(s) ==
    IF Len(s) = 0 THEN <<>>
    ELSE IF Len(s) = 1
    THEN LET b1 == Ord(s[1])
         IN  <<B64Char(b1 \div 4), B64Char((b1 % 4) * 16), "=", "=">>
    ELSE IF Len(s) = 2
    THEN LET b1 == Ord(s[1])
             b2 == Ord(s[2])
         IN  <<B64Char(b1 \div 4), B64Char((b1 % 4) * 16 + b2 \div 16),
               B64Char((b2 % 16) * 4), "=">>
    ELSE LET b1 == Ord(s[1])
             b2 == Ord(s[2])
             b3 == Ord(s[3])
         IN  <<B64Char(b1 \div 4), B64Char((b1 % 4) * 16 + b2 \div 16),
               B64Char((b2 % 16) * 4 + b3 \div 64), B64Char(b3 % 64)>>
             \o b64encode(SubSeq(s, 4, Len(s)))

\* APIAuth(username, secret); NoAuth is None
APIAuth(username, secret) == [set |-> TRUE, username |-> username, secret |-> secret]
NoAuth == [set |-> FALSE, username |-> <<>>, secret |-> <<>>]

\* APIAuth.to_header: "Basic " + b64(username:secret)
to_header(auth) == S_Basic \o b64encode(auth.username \o <<":">> \o auth.secret)

\* f"Bearer {api_key}"
bearer(api_key) == S_Bearer \o api_key

\* Route(base_url, method, path)
Route(base_url, method, path) ==
    [base_url |-> base_url, method |-> method, path |-> path]

\* a url builder that joins the two parts with exactly one slash
Route_url_joined(route) ==
    LET b == route.base_url
        p == route.path
        b1 == IF b # <<>> /\ b[Len(b)] = "/" THEN SubSeq(b, 1, Len(b) - 1) ELSE b
        p1 == IF p # <<>> /\ p[1] = "/" THEN SubSeq(p, 2, Len(p)) ELSE p
    IN  b1 \o <<"/">> \o p1

\* Route.url: self.base_url + self.path
Route_url(route) == route.base_url \o route.path

\* a Python dict with string keys, as a function; the empty dict
EmptyDict == [k \in {} |-> <<>>]

\* a merge in which the defaults win over the headers of the caller
merge_defaults_win(d1, d2) ==
    [k \in DOMAIN d1 \cup DOMAIN d2 |-> IF k \in DOMAIN d1 THEN d1[k] ELSE d2[k]]

\* {**d1, **d2}
merge(d1, d2) ==
    [k \in DOMAIN d1 \cup DOMAIN d2 |-> IF k \in DOMAIN d2 THEN d2[k] ELSE d1[k]]

\* the headers dict of http.py 140-147 for the credential auth
default_headers(auth) ==
    LET headers == [k \in {"Accept", "User-Agent", "Content-Type"} |->
                       CASE k = "Accept" -> S_application_json
                         [] k = "User-Agent" -> S_user_agent
                         [] k = "Content-Type" -> S_application_json]
    IN  IF auth.set
        THEN merge(headers, [k \in {"Authorization"} |-> to_header(auth)])
        ELSE headers

\* the arguments of one HTTPClient.request call; headers is kwargs.get("headers", {})
Args(route, headers, params, json_body, data) ==
    [route |-> route, headers |-> headers, params |-> params,
     json_body |-> json_body, data |-> data]

\* the kwargs handed to session.request (http.py 149-158): a key is set when its
\* argument is truthy
build_kwargs(auth, a) ==
    LET keys == {"headers"}
                \cup (IF truthy(a.params) THEN {"params"} ELSE {})
                \cup (IF truthy(a.json_body) THEN {"json"} ELSE {})
                \cup (IF truthy(a.data) THEN {"data"} ELSE {})
    IN  [k \in keys |->
            CASE k = "headers" -> [dict |-> merge(default_headers(auth), a.headers),
                                   value |-> PyNone]
              [] k = "params" -> [dict |-> EmptyDict, value |-> a.params]
              [] k = "json" -> [dict |-> EmptyDict, value |-> a.json_body]
              [] k = "data" -> [dict |-> EmptyDict, value |-> a.data]]

NoKwargs == [k \in {} |-> [dict |-> EmptyDict, value |-> PyNone]]

\* the body the gateway sends: model_dump_json() of the request model
S_json_dump == <<"{","}">>

\* the arguments the gateway operations pass (http.py 250-368)
gateway_args(base_url, method, path) ==
    Args(Route(base_url, method, path), EmptyDict, PyNone, PyNone, PyStr(S_json_dump))

\* the arguments of a call that passes a route only
route_only_args == Args(Route(S_base_slash, "GET", S_path_x), EmptyDict, PyNone, PyNone, PyNone)

(***************************************************************************)
(* The client objects.  client is the HTTPClient together with the         *)
(* CheckmkHTTP that may own it: session is the index in sessions of the    *)
(* ClientSession self.__session refers to (0: None), sessions lists every  *)
(* ClientSession created so far, auth and api_key are the attributes of    *)
(* these names (<<>>: api_key was never assigned), retries is              *)
(* HTTPClient.retries, and http_retries, username and secret are the       *)
(* attributes retries, username and secret of the CheckmkHTTP.             *)
(* close_calls counts the calls of HTTPClient.close.  context is where the *)
(* program is with respect to "async with client": outside, inside, or     *)
(* exited, and propagated is the exception that left the with statement.   *)
(***************************************************************************)
S_username == <<"u">>
S_secret == <<"p">>
S_secret_rotated == <<"q">>
S_k1 == <<"k","1">>
S_k2 == <<"k","2">>
\* Client.__init__: f"{scheme}://{url}:{port}/{site_name}/check_mk" + f"/api/{api_version}/"
CheckmkHTTP_url ==
    <<"h","t","t","p","s",":","/","/","h",":","4","4","3","/","s","/","c","h","e","c","k","_","m","k","/","a","p","i","/","1",".","0","/">>

OpenSession == [closed |-> FALSE]

\* HTTPClient.__init__: a session only when an event loop is running
HTTPClient_init(loop_running, retries) ==
    [gateway |-> FALSE,
     session |-> IF loop_running THEN 1 ELSE 0,
     sessions |-> IF loop_running THEN <<OpenSession>> ELSE <<>>,
     auth |-> NoAuth, api_key |-> <<>>,
     retries |-> retries, http_retries |-> 0,
     username |-> <<>>, secret |-> <<>>,
     close_calls |-> 0, context |-> "outside", propagated |-> "none"]

\* CheckmkHTTP.__init__: HTTPClient(timeout, verify_ssl); self.retries; set_auth()
CheckmkHTTP_init(loop_running, username, secret, retries) ==
    [HTTPClient_init(loop_running, HTTPClientDefaultRetries) EXCEPT
        !.gateway = TRUE, !.auth = APIAuth(username, secret),
        !.http_retries = retries,
        !.username = username, !.secret = secret]

\* Client.__init__: CheckmkHTTP(url, username, secret, verify_ssl, timeout, retries)
Client_init(loop_running, retries) ==
    CheckmkHTTP_init(loop_running, S_username, S_secret, retries)

\* what sending with self.__session.request(method, url, **kwargs) raises before
\* any exchange: None has no attribute request; a closed ClientSession refuses;
\* aiohttp rejects data together with json
send_fault(cl, kwargs) ==
    IF cl.session = 0 THEN "AttributeError"
    ELSE IF cl.sessions[cl.session].closed THEN "RuntimeError"
    ELSE IF {"json", "data"} \subseteq DOMAIN kwargs THEN "ValueError"
    ELSE "none"

(***************************************************************************)
(* State: the lock of the HTTPClient and, per caller, the operation it is  *)
(* in.  args, method, url and kwargs are what HTTPClient.request was       *)
(* called with and what it built from them; outcomes, sleeps, response and *)
(* requests record what the transport call did: the outcome of each        *)
(* attempt so far, the sleep that followed each attempt (<<d>>:            *)
(* asyncio.sleep(d), <<>>: none), the last response received, and the      *)
(* number of HTTPClient.request calls issued; sent lists the keyword       *)
(* arguments each attempt handed to session.request.  response_open tells  *)
(* that the call is inside "async with self.__session.request(...) as      *)
(* response" at an await: the sleeps of the 429 and server-error branches  *)
(* are inside that block, the sleep of the except clause is outside it.    *)
(***************************************************************************)
NoArgs == Args(Route(<<>>, "", <<>>), EmptyDict, PyNone, PyNone, PyNone)

IdleCall ==
    [pc |-> "idle", op |-> "none", max_retries |-> 0, attempt |-> 0,
     outcomes |-> <<>>, sleeps |-> <<>>, response |-> NoResponse,
     transport |-> NoResult, result |-> NoResult, requests |-> 0,
     entity |-> NoEntity,
     args |-> NoArgs, method |-> "", url |-> <<>>, kwargs |-> NoKwargs,
     sent |-> <<>>, response_open |-> FALSE]

\* a Client built with its defaults while an event loop runs
Init ==
    /\ ratelimit_lock = "free"
    /\ call = [c \in Callers |-> IdleCall]
    /\ client = Client_init(TRUE, ClientDefaultRetries)

\* the caller enters HTTPClient.request for operation op with the arguments a,
\* builds method, url and kwargs and reaches "async with self.ratelimit_lock"
EnterRequest(c, op, n, e, a) ==
    call' = [call EXCEPT ![c] = [IdleCall EXCEPT !.pc = "lock", !.op = op,
                                    !.max_retries = n, !.requests = 1,
                                    !.entity = e, !.args = a,
                                    !.method = a.route.method,
                                    !.url = Route_url(a.route),
                                    !.kwargs = build_kwargs(client.auth, a)]]

\* the same for one more operation on the entity object of the caller: the
\* transport calls issued for that object are counted on
EnterRequestAgain(c, op, n, e, a) ==
    call' = [call EXCEPT ![c] = [IdleCall EXCEPT !.pc = "lock", !.op = op,
                                    !.max_retries = n,
                                    !.requests = call[c].requests + 1,
                                    !.entity = e, !.args = a,
                                    !.method = a.route.method,
                                    !.url = Route_url(a.route),
                                    !.kwargs = build_kwargs(client.auth, a)]]

\* HTTPClient.request called directly with the arguments a and max_retries = n
request(c, n, a) ==
    /\ call[c].pc = "idle"
    /\ EnterRequest(c, "request", n, NoEntity, a)
    /\ UNCHANGED <<ratelimit_lock, client>>

\* a CheckmkHTTP operation that posts to path; max_retries is not passed
gateway_request(c, op, path, e) ==
    /\ client.gateway
    /\ EnterRequest(c, op, DefaultMaxRetries, e,
                    gateway_args(CheckmkHTTP_url, "POST", path))

\* CheckmkHTTP.get_hosts
get_hosts(c) ==
    /\ call[c].pc = "idle"
    /\ gateway_request(c, "get_hosts", CHECKMK_HOSTS_ENDPOINT, NoEntity)
    /\ UNCHANGED <<ratelimit_lock, client>>

\* CheckmkHTTP.get_services
get_services(c) ==
    /\ call[c].pc = "idle"
    /\ gateway_request(c, "get_services", CHECKMK_SERVICES_ENDPOINT, NoEntity)
    /\ UNCHANGED <<ratelimit_lock, client>>

\* CheckmkHTTP.add_service_comment
add_service_comment(c) ==
    /\ call[c].pc = "idle"
    /\ gateway_request(c, "add_service_comment",
                       CHECKMK_ADD_SERVICE_COMMENT_ENDPOINT, NoEntity)
    /\ UNCHANGED <<ratelimit_lock, client>>

\* CheckmkHTTP.add_host_comment
add_host_comment(c) ==
    /\ call[c].pc = "idle"
    /\ gateway_request(c, "add_host_comment",
                       CHECKMK_ADD_HOST_COMMENT_ENDPOINT, NoEntity)
    /\ UNCHANGED <<ratelimit_lock, client>>

\* CheckmkHTTP.add_host_acknowledgement
add_host_acknowledgement(c) ==
    /\ call[c].pc = "idle"
    /\ gateway_request(c, "add_host_acknowledgement",
                       CHECKMK_ACKNOWLEDGE_HOST_ENDPOINT, NoEntity)
    /\ UNCHANGED <<ratelimit_lock, client>>

\* CheckmkHTTP.add_service_acknowledgement
add_service_acknowledgement(c) ==
    /\ call[c].pc = "idle"
    /\ gateway_request(c, "add_service_acknowledgement",
                       CHECKMK_ACKNOWLEDGE_SERVICE_ENDPOINT, NoEntity)
    /\ UNCHANGED <<ratelimit_lock, client>>

\* an operation that raises before any transport call
FailFast(c, op, e, err) ==
    call' = [call EXCEPT ![c] = [IdleCall EXCEPT !.pc = "done", !.op = op,
                                    !.entity = e, !.result = Raised(err, 0)]]

\* Host.acknowledge on the host e
Host_acknowledge(c, e) ==
    /\ call[c].pc = "idle"
    /\ e.kind = "host"
    /\ IF Host_acknowledge_check(e) # "none"
       THEN FailFast(c, "Host_acknowledge", e, Host_acknowledge_check(e))
       ELSE gateway_request(c, "Host_acknowledge",
                            CHECKMK_ACKNOWLEDGE_HOST_ENDPOINT, e)
    /\ UNCHANGED <<ratelimit_lock, client>>

\* Service.acknowledge on the service e
Service_acknowledge(c, e) ==
    /\ call[c].pc = "idle"
    /\ e.kind = "service"
    /\ IF Service_acknowledge_check(e) # "none"
       THEN FailFast(c, "Service_acknowledge", e, Service_acknowledge_check(e))
       ELSE gateway_request(c, "Service_acknowledge",
                            CHECKMK_ACKNOWLEDGE_SERVICE_ENDPOINT, e)
    /\ UNCHANGED <<ratelimit_lock, client>>

\* acknowledge is called once more on the entity object of a call that has
\* returned; the object is as the first call left it
acknowledge_again(c, op, check, path) ==
    /\ call[c].pc = "done"
    /\ call[c].op = op
    /\ call[c].result.kind = "return"
    /\ call[c].requests < MaxRequests
    /\ LET e == call[c].entity
       IN  IF check # "none"
           THEN call' = [call EXCEPT ![c] =
                           [IdleCall EXCEPT !.pc = "done", !.op = op, !.entity = e,
                                            !.requests = call[c].requests,
                                            !.result = Raised(check, 0)]]
           ELSE /\ client.gateway
                /\ EnterRequestAgain(c, op, DefaultMaxRetries, e,
                                     gateway_args(CheckmkHTTP_url, "POST", path))
    /\ UNCHANGED <<ratelimit_lock, client>>

\* Host.acknowledge, a second time on the same Host object
Host_acknowledge_again(c) ==
    acknowledge_again(c, "Host_acknowledge", Host_acknowledge_check(call[c].entity),
                      CHECKMK_ACKNOWLEDGE_HOST_ENDPOINT)

\* Service.acknowledge, a second time on the same Service object
Service_acknowledge_again(c) ==
    acknowledge_again(c, "Service_acknowledge",
                      Service_acknowledge_check(call[c].entity),
                      CHECKMK_ACKNOWLEDGE_SERVICE_ENDPOINT)

\* CheckmkHTTP.set_auth: self.client.auth = APIAuth(self.username, self.secret)
set_auth ==
    /\ client.gateway
    /\ client' = [client EXCEPT !.auth = APIAuth(client.username, client.secret)]
    /\ UNCHANGED <<ratelimit_lock, call>>

\* the owner of the CheckmkHTTP stores a new secret in its attribute secret
assign_secret(secret) ==
    /\ client.gateway
    /\ client' = [client EXCEPT !.secret = secret]
    /\ UNCHANGED <<ratelimit_lock, call>>

\* HTTPClient.set_api_key (Client._set_api_key): self.api_key = f"Bearer {api_key}"
set_api_key(api_key) ==
    /\ client' = [client EXCEPT !.api_key = bearer(api_key)]
    /\ UNCHANGED <<ratelimit_lock, call>>

\* HTTPClient.start_session: self.__session = aiohttp.ClientSession(...)
start_session ==
    /\ Len(client.sessions) < MaxSessions
    /\ client' = [client EXCEPT !.sessions = Append(@, OpenSession),
                                !.session = Len(client.sessions) + 1]
    /\ UNCHANGED <<ratelimit_lock, call>>

\* HTTPClient.close (Client.close, CheckmkHTTP.close):
\* if self.__session: await self.__session.close()
HTTPClient_close(cl) ==
    IF cl.session # 0
    THEN [cl EXCEPT !.sessions[cl.session].closed = TRUE, !.close_calls = @ + 1]
    ELSE [cl EXCEPT !.close_calls = @ + 1]

\* Client.close called by the program
close ==
    /\ client.close_calls < MaxCloses
    /\ client' = HTTPClient_close(client)
    /\ UNCHANGED <<ratelimit_lock, call>>

\* Client.__aenter__: return self
aenter ==
    /\ client.context = "outside"
    /\ client' = [client EXCEPT !.context = "inside"]
    /\ UNCHANGED <<ratelimit_lock, call>>

\* an __aexit__ that returns a true value
aexit_return_true == TRUE

\* Client.__aexit__: return False
aexit_return == FALSE

\* Client.__aexit__(exc_type, ...) and the end of the with statement: log, await
\* self.close(), return False; the exception of the body goes on to the caller
\* unless __aexit__ returned a true value
Client_aexit(cl, exc) ==
    [HTTPClient_close(cl) EXCEPT
        !.context = "exited",
        !.propagated = IF exc # "none" /\ ~aexit_return THEN exc ELSE "none"]

\* the body of the with statement ends normally, after the operations of c
exit_normal(c) ==
    /\ client.context = "inside"
    /\ call[c].pc = "idle"
    /\ client' = Client_aexit(client, "none")
    /\ UNCHANGED <<ratelimit_lock, call>>

\* the body of the with statement lets the exception of an operation of c escape
exit_raised(c) ==
    /\ client.context = "inside"
    /\ call[c].pc = "done"
    /\ call[c].result.kind = "raise"
    /\ client' = Client_aexit(client, call[c].result.error)
    /\ call' = [call EXCEPT ![c] = IdleCall]
    /\ UNCHANGED ratelimit_lock

\* a loop that goes on from the largest attempt index any call on the instance
\* has reached
acquire_shared_attempt(c) ==
    /\ call[c].pc = "lock"
    /\ ratelimit_lock = "free"
    /\ ratelimit_lock' = c
    /\ call' = [call EXCEPT
          ![c].pc = "attempt",
          ![c].attempt = CHOOSE a \in {call[d].attempt : d \in Callers} :
                            \A d \in Callers : call[d].attempt <= a]
    /\ UNCHANGED client

\* a lock that is handed out whether or not it is held
acquire_unguarded(c) ==
    /\ call[c].pc = "lock"
    /\ ratelimit_lock' = c
    /\ call' = [call EXCEPT ![c].pc = "attempt", ![c].attempt = 0]
    /\ UNCHANGED client

\* async with self.ratelimit_lock: the lock is taken when free; the loop starts
acquire(c) ==
    /\ call[c].pc = "lock"
    /\ ratelimit_lock = "free"
    /\ ratelimit_lock' = c
    /\ call' = [call EXCEPT ![c].pc = "attempt", ![c].attempt = 0]
    /\ UNCHANGED client

\* keyword arguments built anew, for every attempt, from the credential the
\* HTTPClient has at that moment
attempt_kwargs_rebuilt(cl, cr) == build_kwargs(cl.auth, cr.args)

\* the keyword arguments of an attempt: the local kwargs built before the lock
attempt_kwargs(cl, cr) == cr.kwargs

\* an exit from HTTPClient.request that keeps the lock
Finish_keep_lock(c, o, t) ==
    /\ UNCHANGED ratelimit_lock
    /\ call' = [call EXCEPT ![c].pc = "done",
                            ![c].outcomes = Append(@, [kind |-> o.kind,
                                                       status |-> o.response.status]),
                            ![c].sleeps = Append(@, <<>>),
                            ![c].sent = Append(@, attempt_kwargs(client, call[c])),
                            ![c].response = o.response,
                            ![c].transport = t,
                            ![c].response_open = FALSE,
                            ![c].result = op_result(call[c].op, t)]

\* HTTPClient.request ends with the transport result t: the lock is released and
\* the operation hands its own result to the caller
Finish(c, o, t) ==
    /\ ratelimit_lock' = "free"
    /\ call' = [call EXCEPT ![c].pc = "done",
                            ![c].outcomes = Append(@, [kind |-> o.kind,
                                                       status |-> o.response.status]),
                            ![c].sleeps = Append(@, <<>>),
                            ![c].sent = Append(@, attempt_kwargs(client, call[c])),
                            ![c].response = o.response,
                            ![c].transport = t,
                            ![c].response_open = FALSE,
                            ![c].result = op_result(call[c].op, t)]

\* one attempt: session.request is sent, ends in outcome o, and the loop body
\* runs; a send that raises before any exchange ends the call with that error
request_attempt(c, o) ==
    /\ call[c].pc = "attempt"
    /\ ratelimit_lock = c
    /\ UNCHANGED client
    /\ LET fault == send_fault(client, attempt_kwargs(client, call[c]))
           step == iteration(o, call[c].attempt, call[c].max_retries)
       IN  CASE fault # "none" ->
                  Finish(c, [kind |-> fault, response |-> NoResponse],
                         Raised(fault, 0))
             [] fault = "none" /\ step.next \in {"return", "raise"} ->
                  Finish(c, o, step.result)
             [] fault = "none" /\ step.next = "sleep" ->
                  /\ call' = [call EXCEPT
                        ![c].pc = "sleeping",
                        ![c].outcomes = Append(@, [kind |-> o.kind,
                                                   status |-> o.response.status]),
                        ![c].sleeps = Append(@, <<step.secs>>),
                        ![c].sent = Append(@, attempt_kwargs(client, call[c])),
                        ![c].response = o.response,
                        ![c].response_open = (o.kind = "response")]
                  /\ UNCHANGED ratelimit_lock
             [] fault = "none" /\ step.next = "fallthrough" ->
                  IF loop_has_next(call[c].attempt, call[c].max_retries)
                  THEN /\ call' = [call EXCEPT
                             ![c].attempt = @ + 1,
                             ![c].outcomes = Append(@, [kind |-> o.kind,
                                                        status |-> o.response.status]),
                             ![c].sleeps = Append(@, <<>>),
                             ![c].sent = Append(@, attempt_kwargs(client, call[c])),
                             ![c].response = o.response]
                       /\ UNCHANGED ratelimit_lock
                  ELSE Finish(c, o, Raised("RuntimeError", 0))

\* asyncio.sleep returns; "continue" starts the next iteration
request_wake(c) ==
    /\ call[c].pc = "sleeping"
    /\ call' = [call EXCEPT ![c].pc = "attempt", ![c].attempt = @ + 1,
                            ![c].response_open = FALSE]
    /\ UNCHANGED <<ratelimit_lock, client>>

\* an exit on which the lock stays with the caller
release_skipped(lock, c) == lock

\* "async with self.ratelimit_lock" is left: the lock is released if c holds it
release(lock, c) == IF lock = c THEN "free" ELSE lock

\* the task of the caller is cancelled at the await it is suspended in (the lock,
\* the request in flight, or a sleep): CancelledError is raised there; it is a
\* BaseException, so neither "except aiohttp.ClientError" nor the gateway's
\* "except Exception" catches it, and it leaves through both "async with"
cancel(c) ==
    /\ call[c].pc \in {"lock", "attempt", "sleeping"}
    /\ ratelimit_lock' = release(ratelimit_lock, c)
    /\ call' = [call EXCEPT ![c].pc = "done",
                            ![c].response_open = FALSE,
                            ![c].transport = Raised("CancelledError", 0),
                            ![c].result = Raised("CancelledError", 0)]
    /\ UNCHANGED client

\* the caller has taken the result and may start another operation
Resume(c) ==
    /\ call[c].pc = "done"
    /\ call' = [call EXCEPT ![c] = IdleCall]
    /\ UNCHANGED <<ratelimit_lock, client>>

Next ==
    \E c \in SeqCallers :
        \/ \E n \in 1..MaxRetries : request(c, n, route_only_args)
        \/ get_hosts(c)
        \/ get_services(c)
        \/ add_service_comment(c)
        \/ add_host_comment(c)
        \/ add_host_acknowledgement(c)
        \/ add_service_acknowledgement(c)
        \/ \E e \in Entities : Host_acknowledge(c, e)
        \/ \E e \in Entities : Service_acknowledge(c, e)
        \/ acquire(c)
        \/ \E o \in Outcomes : request_attempt(c, o)
        \/ request_wake(c)
        \/ Resume(c)

Spec == Init /\ [][Next]_vars

(***************************************************************************)
(* Request construction: direct callers pass every shape of arguments to   *)
(* an HTTPClient that is either bare (auth is None) or owned by a          *)
(* CheckmkHTTP, and the credential operations run in between.              *)
(***************************************************************************)
BuildRoutes ==
    {Route(b, "GET", p) : b \in {S_base_slash, S_base_no_slash, <<>>},
                          p \in {S_path_x, S_path_slash_x, <<>>}}
    \cup {Route(S_base_slash, "POST", S_path_x)}

HeaderOverrides ==
    {EmptyDict,
     [k \in {"Accept"} |-> S_text_html],
     [k \in {"Authorization"} |-> S_caller_token],
     [k \in {"Accept", "X-Trace"} |-> IF k = "Accept" THEN S_text_html ELSE S_path_x]}

BuildArgs ==
    {Args(r, h, params, json_body, data) :
        r \in BuildRoutes, h \in HeaderOverrides,
        params \in {PyNone, PyDict({"host_name"})},
        json_body \in {PyNone, PyDict({}), PyDict({"comment"})},
        data \in {PyNone, PyStr(<<>>), PyStr(S_json_dump)}}

ApiKeys == {S_k1, S_k2}

BuildOutcomes ==
    {[kind |-> "response",
      response |-> Response(st, Header(S_application_json), NoHeader, T_value_obj)] :
        st \in {200, 503}}

InitBuild ==
    /\ ratelimit_lock = "free"
    /\ call = [c \in Callers |-> IdleCall]
    /\ client \in {HTTPClient_init(TRUE, HTTPClientDefaultRetries),
                   Client_init(TRUE, ClientDefaultRetries)}

NextBuild ==
    \E c \in SeqCallers :
        \/ \E a \in BuildArgs : request(c, DefaultMaxRetries, a)
        \/ get_hosts(c)
        \/ set_auth
        \/ \E k \in ApiKeys : set_api_key(k)
        \/ acquire(c)
        \/ \E o \in BuildOutcomes : request_attempt(c, o)
        \/ request_wake(c)
        \/ Resume(c)

SpecBuild == InitBuild /\ [][NextBuild]_vars

(***************************************************************************)
(* Session lifecycle: a Client is built with or without a running event    *)
(* loop and with a retry count; gateway operations, start_session and      *)
(* close follow in any order.                                              *)
(***************************************************************************)
GatewayOps ==
    {"get_hosts", "get_services", "add_service_comment", "add_host_comment",
     "add_host_acknowledgement", "add_service_acknowledgement"}

SessionOutcomes ==
    {[kind |-> "response",
      response |-> Response(st, Header(S_application_json), NoHeader, T_value_obj)] :
        st \in {200, 503}}

InitSession ==
    /\ ratelimit_lock = "free"
    /\ call = [c \in Callers |-> IdleCall]
    /\ client \in {Client_init(loop_running, retries) :
                      loop_running \in BOOLEAN,
                      retries \in (1..MaxRetries) \cup {ClientDefaultRetries}}

NextSession ==
    \E c \in SeqCallers :
        \/ start_session
        \/ close
        \/ get_hosts(c)
        \/ get_services(c)
        \/ add_host_comment(c)
        \/ add_service_acknowledgement(c)
        \/ acquire(c)
        \/ \E o \in SessionOutcomes : request_attempt(c, o)
        \/ request_wake(c)
        \/ Resume(c)

SpecSession == InitSession /\ [][NextSession]_vars

(***************************************************************************)
(* Acknowledgement: Host and Service objects are acknowledged, and         *)
(* acknowledged again after the call returned.                             *)
(***************************************************************************)
AckOutcomes ==
    {[kind |-> "response",
      response |-> Response(st, Header(S_application_json), NoHeader, T_value_obj)] :
        st \in {200, 404, 429, 503}}
    \cup {[kind |-> "ClientError", response |-> NoResponse]}

NextAck ==
    \E c \in SeqCallers :
        \/ \E e \in Entities : Host_acknowledge(c, e)
        \/ \E e \in Entities : Service_acknowledge(c, e)
        \/ Host_acknowledge_again(c)
        \/ Service_acknowledge_again(c)
        \/ acquire(c)
        \/ \E o \in AckOutcomes : request_attempt(c, o)
        \/ request_wake(c)
        \/ Resume(c)

SpecAck == Init /\ [][NextAck]_vars

(***************************************************************************)
(* Concurrency: the callers are coroutines that share one Client; each     *)
(* step is the run of one coroutine up to its next await.                  *)
(***************************************************************************)
ConcOutcomes ==
    {[kind |-> "response",
      response |-> Response(st, Header(S_application_json), NoHeader, T_value_obj)] :
        st \in {200, 503}}
    \cup {[kind |-> "ClientError", response |-> NoResponse]}

NextConc ==
    \E c \in Callers :
        \/ \E n \in 1..MaxRetries : request(c, n, route_only_args)
        \/ get_hosts(c)
        \/ acquire(c)
        \/ \E o \in ConcOutcomes : request_attempt(c, o)
        \/ request_wake(c)
        \/ Resume(c)

SpecConc == Init /\ [][NextConc]_vars

(***************************************************************************)
(* The context manager: the program enters "async with client", runs       *)
(* gateway operations in the body and leaves it, normally or with the      *)
(* exception of an operation.                                              *)
(***************************************************************************)
ContextOutcomes ==
    {[kind |-> "response",
      response |-> Response(st, Header(S_application_json), NoHeader, T_value_obj)] :
        st \in {200, 404, 503}}
    \cup {[kind |-> "ClientError", response |-> NoResponse]}

NextContext ==
    \E c \in SeqCallers :
        \/ aenter
        \/ get_hosts(c)
        \/ add_host_comment(c)
        \/ acquire(c)
        \/ \E o \in ContextOutcomes : request_attempt(c, o)
        \/ request_wake(c)
        \/ Resume(c)
        \/ exit_normal(c)
        \/ exit_raised(c)

SpecContext == Init /\ [][NextContext]_vars

(***************************************************************************)
(* Credential rotation: while concurrent callers run requests, the owner   *)
(* of the CheckmkHTTP stores a new secret and calls set_auth.              *)
(***************************************************************************)
Secrets == {S_secret, S_secret_rotated}

RotateArgs ==
    {route_only_args,
     Args(Route(S_base_slash, "POST", S_path_x), EmptyDict,
          PyDict({"host_name"}), PyDict({"comment"}), PyNone)}

RotateOutcomes ==
    {[kind |-> "response",
      response |-> Response(st, Header(S_application_json), NoHeader, T_value_obj)] :
        st \in {200, 503}}

NextRotate ==
    \E c \in Callers :
        \/ \E a \in RotateArgs : request(c, DefaultMaxRetries, a)
        \/ get_hosts(c)
        \/ \E secret \in Secrets : assign_secret(secret)
        \/ set_auth
        \/ acquire(c)
        \/ \E o \in RotateOutcomes : request_attempt(c, o)
        \/ request_wake(c)
        \/ Resume(c)

SpecRotate == Init /\ [][NextRotate]_vars

(***************************************************************************)
(* Cancellation: concurrent callers whose tasks may be cancelled at any    *)
(* await.                                                                  *)
(***************************************************************************)
CancelOutcomes ==
    {[kind |-> "response",
      response |-> Response(st, Header(S_application_json), NoHeader, T_value_obj)] :
        st \in {200, 429, 503}}
    \cup {[kind |-> "ClientError", response |-> NoResponse]}

NextCancel ==
    \E c \in Callers :
        \/ \E n \in 1..MaxRetries : request(c, n, route_only_args)
        \/ get_hosts(c)
        \/ acquire(c)
        \/ \E o \in CancelOutcomes : request_attempt(c, o)
        \/ request_wake(c)
        \/ cancel(c)
        \/ Resume(c)

SpecCancel == Init /\ [][NextCancel]_vars

(***************************************************************************)
(* Progress: concurrent callers under the assumption that every attempt    *)
(* and every sleep finishes (weak fairness of the attempt and of the wake  *)
(* of each caller) and that the asyncio.Lock, which wakes its waiters in   *)
(* the order they arrived, passes no waiter over for ever (strong fairness *)
(* of acquire).  The outcomes cover every exit of the loop: return, typed  *)
(* error, re-raised fault, TimeoutError and the RuntimeError past the loop.*)
(***************************************************************************)
LiveOutcomes ==
    ConcOutcomes
    \cup {[kind |-> "response",
           response |-> Response(400, Header(S_application_json), NoHeader, T_oops)],
          [kind |-> "TimeoutError", response |-> NoResponse]}

NextLive ==
    \E c \in Callers :
        \/ \E n \in {1, DefaultMaxRetries} : request(c, n, route_only_args)
        \/ get_services(c)
        \/ acquire(c)
        \/ \E o \in LiveOutcomes : request_attempt(c, o)
        \/ request_wake(c)
        \/ Resume(c)

Fairness ==
    \A c \in Callers :
        /\ SF_vars(acquire(c))
        /\ WF_vars(\E o \in LiveOutcomes : request_attempt(c, o))
        /\ WF_vars(request_wake(c))

SpecLive == Init /\ [][NextLive]_vars /\ Fairness

(***************************************************************************)
(* Properties.  Attempt k (k = 1, 2, ...) of a call is the iteration with  *)
(* loop index k - 1; outcomes[k] is what it ended in and sleeps[k] the     *)
(* sleep that followed it.                                                 *)
(***************************************************************************)
Attempts(c) == Len(call[c].outcomes)

\* the call of c has ended, and attempt k was its last
EndedAt(c, k) == call[c].pc = "done" /\ Attempts(c) = k

\* attempt k was followed by asyncio.sleep(d) and the call went on
RetriedAfter(c, k, d) == call[c].sleeps[k] = <<d>> /\ ~EndedAt(c, k)

\* attempt k ended the transport call by raising e with status st, without a sleep
RaisedAt(c, k, e, st) ==
    /\ EndedAt(c, k)
    /\ call[c].sleeps[k] = <<>>
    /\ call[c].transport = Raised(e, st)

IsStatus(o, st) == o.kind = "response" /\ o.status = st

\* C1: when every attempt of one HTTPClient.request call so far answered with the
\* same status of {500,502,503,504,524}, attempt k < max_retries was followed by a
\* sleep of 2^(k-1) seconds and the call went on, and attempt k = max_retries
\* ended the call, with no sleep, by raising ServiceUnavailable: exactly
\* max_retries attempts are made.
C1_ServerErrorRetries ==
    \A c \in Callers : \A st \in {500, 502, 503, 504, 524} :
        (\A k \in 1..Attempts(c) : IsStatus(call[c].outcomes[k], st))
        => /\ Attempts(c) <= call[c].max_retries
           /\ \A k \in 1..Attempts(c) :
                IF k < call[c].max_retries
                THEN RetriedAfter(c, k, 2 ^ (k - 1))
                ELSE RaisedAt(c, k, "ServiceUnavailable", st)

\* three attempts answered 524: sleeps of 1 s and 2 s, then ServiceUnavailable
C1_Witness ==
    \E c \in Callers :
        /\ call[c].pc = "done" /\ call[c].max_retries = 3
        /\ Attempts(c) = 3
        /\ \A k \in 1..3 : IsStatus(call[c].outcomes[k], 524)
        /\ call[c].sleeps = << <<1>>, <<2>>, <<>> >>
        /\ call[c].transport.error = "ServiceUnavailable"

\* C2: an attempt that receives 401, 403 or 404 is the last one of the call,
\* whichever attempt it is: the call raises Unauthorized, Forbidden or NotFound
\* right after it, with no sleep and no further attempt.
C2_TerminalStatuses ==
    \A c \in Callers : \A k \in 1..Attempts(c) :
        /\ IsStatus(call[c].outcomes[k], 401) => RaisedAt(c, k, "Unauthorized", 401)
        /\ IsStatus(call[c].outcomes[k], 403) => RaisedAt(c, k, "Forbidden", 403)
        /\ IsStatus(call[c].outcomes[k], 404) => RaisedAt(c, k, "NotFound", 404)

\* a 403 on the third attempt, after a retried 429 and a retried fault
C2_Witness ==
    \E c \in Callers :
        /\ call[c].pc = "done" /\ Attempts(c) = 3
        /\ IsStatus(call[c].outcomes[1], 429)
        /\ call[c].outcomes[2].kind = "ClientError"
        /\ IsStatus(call[c].outcomes[3], 403)
        /\ call[c].transport.error = "Forbidden"

\* C3: a 429 on an attempt with attempts remaining is followed by a sleep of the
\* seconds the Retry-After header gives (60 when the header is absent) and by the
\* next attempt; a 429 on the final attempt raises TooManyRequests with no sleep.
C3_RetryAfterSleep ==
    \A c \in Callers : \A k \in 1..Attempts(c) :
        IsStatus(call[c].outcomes[k], 429)
        => IF k < call[c].max_retries
           THEN /\ ~EndedAt(c, k)
                /\ call[c].sleeps[k] # <<>>
                /\ k = Attempts(c)
                   => LET h == call[c].response.retry_after
                      IN  /\ ~h.present => call[c].sleeps[k] = <<60>>
                          /\ h = Header(S_5) => call[c].sleeps[k] = <<5>>
           ELSE RaisedAt(c, k, "TooManyRequests", 429)

\* C4: a non-2xx status other than 401, 403, 404, 429 and the five server errors
\* ends the call at the attempt that received it, with a typed HTTP error that
\* carries the status; the RuntimeError after the loop is never raised.
C4_OtherStatusTerminal ==
    \A c \in Callers :
        /\ call[c].transport.error # "RuntimeError"
        /\ \A k \in 1..Attempts(c) :
              LET o == call[c].outcomes[k]
              IN  (/\ o.kind = "response"
                   /\ ~(200 <= o.status /\ o.status < 300)
                   /\ o.status \notin {401, 403, 404, 429, 500, 502, 503, 504, 524})
                  => /\ EndedAt(c, k)
                     /\ call[c].transport.kind = "raise"
                     /\ call[c].transport.status_code = o.status

\* C5: a connection-level fault (aiohttp.ClientError) on attempt k < max_retries
\* is followed by a sleep of 2^(k-1) seconds and the next attempt; on the final
\* attempt the same fault leaves HTTPClient.request, not wrapped in another error.
C5_ClientErrorRetried ==
    \A c \in Callers : \A k \in 1..Attempts(c) :
        call[c].outcomes[k].kind = "ClientError"
        => IF k < call[c].max_retries
           THEN RetriedAfter(c, k, 2 ^ (k - 1))
           ELSE RaisedAt(c, k, "ClientError", 0)

\* three faults in a row: sleeps of 1 s and 2 s, then the fault itself is raised
C5_Witness ==
    \E c \in Callers :
        /\ call[c].pc = "done" /\ call[c].op = "request"
        /\ Attempts(c) = 3
        /\ \A k \in 1..3 : call[c].outcomes[k].kind = "ClientError"
        /\ call[c].sleeps = << <<1>>, <<2>>, <<>> >>
        /\ call[c].result = Raised("ClientError", 0)

\* C6: a request timeout on attempt k < max_retries is followed by the backoff
\* sleep of 2^(k-1) seconds and the next attempt, like a connection-level fault;
\* only on the final attempt does the timeout leave HTTPClient.request.
C6_TimeoutRetried ==
    \A c \in Callers : \A k \in 1..Attempts(c) :
        call[c].outcomes[k].kind = "TimeoutError"
        => IF k < call[c].max_retries
           THEN RetriedAfter(c, k, 2 ^ (k - 1))
           ELSE RaisedAt(c, k, "TimeoutError", 0)

\* C7: the first attempt that receives a status in 200..299 ends the call: it is
\* the last attempt (attempt k: exactly k attempts were made), no sleep follows
\* it, and HTTPClient.request returns the decoded payload of that response
\* (nothing is raised).
C7_SuccessEndsCall ==
    \A c \in Callers : \A k \in 1..Attempts(c) :
        LET o == call[c].outcomes[k]
        IN  (o.kind = "response" /\ 200 <= o.status /\ o.status <= 299)
            => /\ EndedAt(c, k)
               /\ call[c].attempt = k - 1
               /\ call[c].sleeps[k] = <<>>
               /\ call[c].response.status = o.status
               /\ call[c].transport = Returned(json_or_text(call[c].response).value)

\* a 299 on the third attempt, after a retried 503 and a retried 429
C7_Witness ==
    \E c \in Callers :
        /\ call[c].pc = "done" /\ call[c].op = "request"
        /\ Attempts(c) = 3
        /\ IsStatus(call[c].outcomes[1], 503)
        /\ IsStatus(call[c].outcomes[2], 429)
        /\ IsStatus(call[c].outcomes[3], 299)
        /\ call[c].result.kind = "return"
        /\ call[c].result.value = PyDict({"value"})

HasJsonContentType(r) ==
    r.content_type.present /\ str_contains(<<"j","s","o","n">>, r.content_type.val)

\* C8: decoding the body never fails a call.  No call ends with a decode error,
\* and a call that ends with a 2xx response returns: for a Content-Type that
\* contains "json", the parsed JSON when the body is valid JSON and the raw text
\* otherwise; for any other (or no) Content-Type, the raw text.
C8_DecodeNeverFails ==
    \A c \in Callers :
        /\ call[c].transport.error \notin {"JSONDecodeError", "ContentTypeError"}
        /\ LET r == call[c].response
           IN  (call[c].pc = "done" /\ Attempts(c) > 0
                /\ IsStatus(call[c].outcomes[Attempts(c)], r.status)
                /\ 200 <= r.status /\ r.status <= 299)
               => /\ call[c].transport.kind = "return"
                  /\ call[c].transport.value =
                        IF HasJsonContentType(r) /\ r.body = T_value_obj
                            THEN PyDict({"value"})
                        ELSE IF HasJsonContentType(r) /\ r.body = T_unexpected_obj
                            THEN PyDict({"unexpected"})
                        ELSE PyStr(r.body)

\* a 200 with Content-Type application/json and the body "no value": the call
\* returns the text
C8_Witness ==
    \E c \in Callers :
        /\ call[c].pc = "done" /\ call[c].op = "request"
        /\ call[c].response.status = 200
        /\ call[c].response.content_type = Header(S_application_json)
        /\ call[c].response.body = T_no_value
        /\ call[c].result = Returned(PyStr(T_no_value))

\* C9: get_hosts and get_services return the payload of a successful transport
\* call verbatim when it has the key "value", and raise HostParseError /
\* ServiceParseError when it has not.
C9_ValueKeyOrParseError ==
    \A c \in Callers :
        (/\ call[c].pc = "done"
         /\ call[c].op \in {"get_hosts", "get_services"}
         /\ call[c].transport.kind = "return")
        => LET payload == call[c].transport.value
           IN  IF payload.type = "dict" /\ "value" \in payload.keys
               THEN call[c].result = Returned(payload)
               ELSE /\ call[c].result.kind = "raise"
                    /\ call[c].result.error =
                          IF call[c].op = "get_hosts" THEN "HostParseError"
                          ELSE "ServiceParseError"

\* C10: Host.acknowledge and Service.acknowledge on an entity that is already
\* acknowledged or is in state 0 raise a domain error and issue no transport
\* call; a transport call is issued only for an unacknowledged entity in a
\* problem state.
C10_AcknowledgeFailsFast ==
    \A c \in Callers :
        call[c].op \in {"Host_acknowledge", "Service_acknowledge"}
        => LET e == call[c].entity
           IN  /\ (e.acknowledged \/ e.state = 0)
                  => /\ call[c].requests = 0
                     /\ Attempts(c) = 0
                     /\ call[c].pc = "done"
                     /\ call[c].result.kind = "raise"
                     /\ call[c].result.error \in DomainErrors
               /\ (call[c].requests > 0 \/ Attempts(c) > 0)
                  => (~e.acknowledged /\ e.state # 0)
               /\ (~e.acknowledged /\ e.state # 0) => call[c].requests = 1

\* Host.acknowledge on an acknowledged host in a problem state: the domain error,
\* and no transport call
C10_Witness ==
    \E c \in Callers :
        /\ call[c].pc = "done" /\ call[c].op = "Host_acknowledge"
        /\ call[c].entity.acknowledged /\ call[c].entity.state = 1
        /\ call[c].result.error = "HostProblemAlreadyAcknowledgedError"
        /\ call[c].requests = 0 /\ Attempts(c) = 0

(***************************************************************************)
(* Properties of request construction (SpecBuild).                         *)
(***************************************************************************)
\* the headers dict handed to session.request by the call of c
SentHeaders(c) == call[c].kwargs["headers"].dict

\* the call of c has built its request
Built(c) == call[c].pc \in {"lock", "attempt", "sleeping", "done"} /\ call[c].requests = 1

\* C11: once set_api_key(k) has been called on the transport, a request that
\* starts afterwards, and whose caller overrides no Authorization header, is sent
\* with the Authorization header value "Bearer k".
C11_BearerAfterSetApiKey ==
    [][\A c \in Callers : \A k \in ApiKeys :
          (/\ call[c].pc = "idle" /\ call'[c].pc = "lock"
           /\ client.api_key = bearer(k)
           /\ "Authorization" \notin DOMAIN call'[c].args.headers)
          => /\ "Authorization" \in DOMAIN call'[c].kwargs["headers"].dict
             /\ call'[c].kwargs["headers"].dict["Authorization"] = S_Bearer \o k]_vars

\* C17: of json_body and data, a request that is given both attaches the JSON
\* body alone; given one, it attaches that one alone; given none, it attaches no
\* body.  (An argument counts as given when it is truthy.)
C17_ExactlyOneBody ==
    \A c \in Callers :
        Built(c) =>
            LET a == call[c].args
                attached == DOMAIN call[c].kwargs \cap {"json", "data"}
            IN  /\ truthy(a.json_body) =>
                      attached = {"json"} /\ call[c].kwargs["json"].value = a.json_body
                /\ ~truthy(a.json_body) /\ truthy(a.data) =>
                      attached = {"data"} /\ call[c].kwargs["data"].value = a.data
                /\ ~truthy(a.json_body) /\ ~truthy(a.data) => attached = {}

\* C18: the headers a request is sent with have exactly the keys Accept,
\* User-Agent, Content-Type, Authorization when the transport has a credential,
\* and the keys the caller supplied; a key the caller supplied carries the
\* value of the caller, any other key its default.
C18_HeadersMerged ==
    [][\A c \in Callers :
          (call[c].pc = "idle" /\ call'[c].pc = "lock") =>
             LET sent == call'[c].kwargs["headers"].dict
                 given == call'[c].args.headers
             IN  /\ DOMAIN sent = {"Accept", "User-Agent", "Content-Type"}
                                   \cup (IF client.auth.set THEN {"Authorization"} ELSE {})
                                   \cup DOMAIN given
                 /\ \A k \in DOMAIN given : sent[k] = given[k]
                 /\ \A k \in DOMAIN sent \ DOMAIN given :
                       sent[k] = CASE k = "Accept" -> S_application_json
                                   [] k = "Content-Type" -> S_application_json
                                   [] k = "User-Agent" -> S_user_agent
                                   [] k = "Authorization" -> to_header(client.auth)]_vars

\* a request with a credential on the transport whose caller overrides Accept:
\* text/html is sent, next to the default Content-Type and the Basic credential
C18_Witness ==
    \E c \in Callers :
        /\ Built(c)
        /\ call[c].args.headers = [k \in {"Accept"} |-> S_text_html]
        /\ DOMAIN SentHeaders(c) = {"Accept", "User-Agent", "Content-Type", "Authorization"}
        /\ SentHeaders(c)["Accept"] = S_text_html
        /\ SentHeaders(c)["Content-Type"] = S_application_json
        /\ SentHeaders(c)["Authorization"]
              = <<"B","a","s","i","c"," ","d","T","p","w">>

\* C19: the url a request is sent to is base_url followed by path, character
\* by character, with nothing inserted, removed or collapsed; base_url
\* "https://h/api/" and path "x" give "https://h/api/x".
C19_RouteUrlConcatenation ==
    \A c \in Callers :
        Built(c) =>
            LET b == call[c].args.route.base_url
                p == call[c].args.route.path
                url == call[c].url
            IN  /\ Len(url) = Len(b) + Len(p)
                /\ \A i \in 1..Len(b) : url[i] = b[i]
                /\ \A i \in 1..Len(p) : url[Len(b) + i] = p[i]
                /\ (b = S_base_slash /\ p = S_path_x)
                      => url = <<"h","t","t","p","s",":","/","/","h","/","a","p","i","/","x">>

\* a request to base_url "https://h/api" and path "/x", and one to base_url
\* "https://h/api/" and path "/x" whose url keeps both slashes
C19_Witness ==
    \E c \in Callers :
        /\ Built(c)
        /\ \/ /\ call[c].args.route = Route(S_base_no_slash, "GET", S_path_x)
              /\ call[c].url = <<"h","t","t","p","s",":","/","/","h","/","a","p","i","x">>
           \/ /\ call[c].args.route = Route(S_base_slash, "GET", S_path_slash_x)
              /\ call[c].url = <<"h","t","t","p","s",":","/","/","h","/","a","p","i","/","/","x">>

(***************************************************************************)
(* Properties of the session lifecycle and of the configured retry count   *)
(* (SpecSession).                                                          *)
(***************************************************************************)
\* the sessions of the HTTPClient that were created and not closed
OpenSessions == {i \in 1..Len(client.sessions) : ~client.sessions[i].closed}

\* C12: no attempt of a request is sent while the HTTPClient has no session:
\* when a call is about to send, a session exists, and no attempt has ended in
\* the AttributeError of sending on None.
C12_SessionOpenedOnFirstUse ==
    \A c \in Callers :
        /\ call[c].pc = "attempt" => client.session # 0
        /\ \A k \in 1..Attempts(c) : call[c].outcomes[k].kind # "AttributeError"

\* C13: at every moment at most one session of the HTTPClient is open.
C13_AtMostOneOpenSession ==
    Cardinality(OpenSessions) <= 1

\* C14: a gateway operation makes at most as many attempts as the retry count
\* the Client was constructed with, and when its attempts are exhausted on
\* server errors it has made exactly that many.
C14_ConfiguredRetriesUsed ==
    \A c \in Callers :
        call[c].op \in GatewayOps =>
            /\ Attempts(c) <= client.http_retries
            /\ (call[c].pc = "done" /\ call[c].transport.kind = "raise"
                  /\ call[c].transport.error = "ServiceUnavailable")
                 => Attempts(c) = client.http_retries

(***************************************************************************)
(* Properties of the gateway operations (Spec).                            *)
(***************************************************************************)
WriteOps ==
    {"add_service_comment", "add_host_comment",
     "add_host_acknowledgement", "add_service_acknowledgement"}

\* C15: a write operation of CheckmkHTTP whose transport call succeeded returns
\* True.
C15_WriteOpsReturnTrue ==
    \A c \in Callers :
        (call[c].pc = "done" /\ call[c].op \in WriteOps
          /\ call[c].transport.kind = "return")
        => call[c].result = Returned(PyTrue)

\* C16: when the transport call of get_hosts or get_services has raised, the
\* operation raises HostFetchError or ServiceFetchError whose cause is the
\* exception the transport raised; it returns nothing.
C16_FetchErrorWrapsFailure ==
    \A c \in Callers :
        (call[c].pc = "done" /\ call[c].op \in {"get_hosts", "get_services"}
          /\ call[c].transport.kind = "raise")
        => /\ call[c].result.kind = "raise"
           /\ call[c].result.error = (IF call[c].op = "get_hosts"
                                       THEN "HostFetchError" ELSE "ServiceFetchError")
           /\ call[c].result.cause = call[c].transport.error

\* get_hosts after three attempts answered 503: HostFetchError caused by
\* ServiceUnavailable
C16_Witness ==
    \E c \in Callers :
        /\ call[c].pc = "done" /\ call[c].op = "get_hosts"
        /\ Attempts(c) = 3
        /\ \A k \in 1..3 : IsStatus(call[c].outcomes[k], 503)
        /\ call[c].transport.error = "ServiceUnavailable"
        /\ call[c].result = RaisedFrom("HostFetchError", "ServiceUnavailable")

(***************************************************************************)
(* Properties of concurrent callers (SpecConc).                            *)
(***************************************************************************)
\* the caller is inside the retry loop: between two attempts or asleep
InLoop(c) == call[c].pc \in {"attempt", "sleeping"}

\* C20: a caller inside the retry loop holds the lock of the HTTPClient, so at
\* most one caller is inside it; and while a caller is inside the loop no step
\* records an attempt of another caller.
C20_RetryLoopSerialized ==
    /\ [](/\ \A c \in Callers : InLoop(c) => ratelimit_lock = c
          /\ Cardinality({c \in Callers : InLoop(c)}) <= 1)
    /\ [][\A c, d \in Callers :
            (c # d /\ InLoop(c)) => Len(call'[d].outcomes) <= Len(call[d].outcomes)]_vars

\* one caller sleeps between two attempts, holding the lock, while the other
\* has called request and waits for the lock
C20_Witness ==
    /\ call["c1"].pc = "sleeping" /\ Attempts("c1") = 2
    /\ ratelimit_lock = "c1"
    /\ call["c2"].pc = "lock" /\ Attempts("c2") = 0

(***************************************************************************)
(* Properties of the retry loop as a whole (Spec).                         *)
(***************************************************************************)
\* the attempts of the call of c that were followed by a sleep
SleptAfter(c) == {k \in 1..Attempts(c) : call[c].sleeps[k] # <<>>}

\* an attempt that ended in a server error status or a transport fault
IsBackoffOutcome(o) ==
    \/ o.kind = "ClientError"
    \/ o.kind = "response" /\ o.status \in ServerErrorStatuses

\* an attempt that ended in an outcome the loop retries
IsRetryable(o) == IsBackoffOutcome(o) \/ IsStatus(o, 429)

\* C23: a call of HTTPClient.request with max_retries >= 1 makes at most
\* max_retries attempts and at most max_retries - 1 sleeps, and the attempt that
\* ended the call was followed by no sleep.
C23_BoundedAttemptsAndSleeps ==
    \A c \in Callers :
        call[c].max_retries >= 1 =>
            /\ Attempts(c) <= call[c].max_retries
            /\ Cardinality(SleptAfter(c)) <= call[c].max_retries - 1
            /\ call[c].pc = "done" => Attempts(c) \notin SleptAfter(c)

\* a call with max_retries = 3 that used all three attempts, on a 429, a fault
\* and a 400, and slept twice
C23_Witness ==
    \E c \in Callers :
        /\ call[c].pc = "done" /\ call[c].max_retries = 3 /\ Attempts(c) = 3
        /\ IsStatus(call[c].outcomes[1], 429)
        /\ call[c].outcomes[2].kind = "ClientError"
        /\ IsStatus(call[c].outcomes[3], 400)
        /\ SleptAfter(c) = {1, 2}

\* C25: a server error or transport fault on attempt k < max_retries (loop index
\* k - 1) is followed by a sleep of 2^(k-1) seconds whatever the earlier attempts
\* of the call were, 429 responses included; on attempt k = max_retries it ends
\* the call, so that every 429 has used up one attempt.
C25_BackoffExponentIsAttemptIndex ==
    \A c \in Callers : \A k \in 1..Attempts(c) :
        IsBackoffOutcome(call[c].outcomes[k])
        => IF k < call[c].max_retries
           THEN RetriedAfter(c, k, 2 ^ (k - 1))
           ELSE EndedAt(c, k) /\ call[c].sleeps[k] = <<>>

\* max_retries = 3: a 429 with Retry-After 5, then a 503: sleeps of 5 s and 2 s
C25_Witness ==
    \E c \in Callers :
        /\ call[c].max_retries = 3 /\ Attempts(c) = 2
        /\ IsStatus(call[c].outcomes[1], 429)
        /\ IsStatus(call[c].outcomes[2], 503)
        /\ call[c].sleeps = << <<5>>, <<2>> >>
        /\ call[c].pc = "sleeping"

\* C26: a call whose max_retries attempts all ended in retryable outcomes (429,
\* server error, transport fault) raises what its final attempt determines: a
\* server error raises ServiceUnavailable, a 429 raises TooManyRequests, a
\* transport fault is re-raised.
C26_ExhaustionErrorByFinalAttempt ==
    \A c \in Callers :
        (/\ call[c].pc = "done" /\ call[c].max_retries >= 1
         /\ Attempts(c) = call[c].max_retries
         /\ \A k \in 1..Attempts(c) : IsRetryable(call[c].outcomes[k]))
        => LET final == call[c].outcomes[Attempts(c)]
           IN  call[c].transport =
                 IF final.kind = "ClientError" THEN Raised("ClientError", 0)
                 ELSE IF final.status = 429 THEN Raised("TooManyRequests", 429)
                 ELSE Raised("ServiceUnavailable", final.status)

\* a 503 and a 429 followed by a transport fault on the third and last attempt:
\* the fault is what the call raises
C26_Witness ==
    \E c \in Callers :
        /\ call[c].pc = "done" /\ call[c].max_retries = 3 /\ Attempts(c) = 3
        /\ IsStatus(call[c].outcomes[1], 503)
        /\ IsStatus(call[c].outcomes[2], 429)
        /\ call[c].outcomes[3].kind = "ClientError"
        /\ call[c].transport = Raised("ClientError", 0)

\* C28: get_hosts and get_services return normally only a JSON object that has
\* the key "value": a payload that is text, or empty, is never returned.
C28_OnlyObjectWithValueReturned ==
    \A c \in Callers :
        (/\ call[c].pc = "done"
         /\ call[c].op \in {"get_hosts", "get_services"}
         /\ call[c].result.kind = "return")
        => /\ call[c].result.value.type = "dict"
           /\ "value" \in call[c].result.value.keys

\* C22: whatever requests ran on the HTTPClient before, a request enters its
\* loop at attempt index 0 with no attempt made; its loop index counts its own
\* attempts only; a first attempt that is retried with backoff sleeps 1 second;
\* and a request that ends on retryable outcomes alone has made all of its
\* max_retries attempts.
C22_RetryStateIsPerRequest ==
    /\ [][\A c \in Callers :
            (call[c].pc = "lock" /\ call'[c].pc = "attempt")
            => call'[c].attempt = 0 /\ call'[c].outcomes = <<>>]_vars
    /\ [](\A c \in Callers :
            /\ call[c].pc = "attempt" => call[c].attempt = Attempts(c)
            /\ call[c].pc = "sleeping" => call[c].attempt = Attempts(c) - 1
            /\ (Attempts(c) >= 1 /\ call[c].max_retries > 1
                  /\ IsBackoffOutcome(call[c].outcomes[1]))
                 => call[c].sleeps[1] = <<1>>
            /\ (call[c].pc = "done" /\ Attempts(c) >= 1
                  /\ \A k \in 1..Attempts(c) : IsRetryable(call[c].outcomes[k]))
                 => Attempts(c) = call[c].max_retries)

\* after a request that used up its three attempts on 503 responses, the next
\* request on the same HTTPClient sleeps 1 s after its first attempt
C22_Witness ==
    /\ call["c1"].pc = "done" /\ Attempts("c1") = 3
    /\ call["c1"].transport.error = "ServiceUnavailable"
    /\ call["c2"].pc = "sleeping" /\ call["c2"].attempt = 0
    /\ call["c2"].max_retries = 3
    /\ call["c2"].sleeps = << <<1>> >>

(***************************************************************************)
(* Progress (SpecLive).                                                    *)
(***************************************************************************)
\* C24: the lock is held only by a caller inside the retry loop; a caller inside
\* the loop eventually ends its call, and then does not hold the lock; a caller
\* waiting for the lock eventually enters the loop.
C24_RequestsTerminateAndReleaseLock ==
    /\ [](ratelimit_lock # "free" => InLoop(ratelimit_lock))
    /\ \A c \in Callers :
          /\ InLoop(c) ~> (call[c].pc = "done" /\ ratelimit_lock # c)
          /\ call[c].pc = "lock" ~> InLoop(c)

\* a call has ended with the RuntimeError raised past the loop, and the caller
\* that was waiting now holds the lock
C24_Witness ==
    /\ call["c1"].pc = "done" /\ call["c1"].transport = Raised("RuntimeError", 0)
    /\ ratelimit_lock = "c2" /\ call["c2"].pc = "attempt"

(***************************************************************************)
(* Properties of acknowledgement (SpecAck).                                *)
(***************************************************************************)
AckOps == {"Host_acknowledge", "Service_acknowledge"}

\* C29: acknowledge on an acknowledged entity raises the already-acknowledged
\* error, in state 0 too; no step of an acknowledge call changes the entity, so
\* after a call that returned the entity is still unacknowledged and in a problem
\* state; and a second acknowledge on that object goes to the transport again.
C29_AcknowledgeOrderAndFrame ==
    /\ [](\A c \in Callers :
            call[c].op \in AckOps =>
               /\ call[c].entity.acknowledged
                    => /\ call[c].pc = "done"
                       /\ call[c].result =
                            Raised(IF call[c].op = "Host_acknowledge"
                                   THEN "HostProblemAlreadyAcknowledgedError"
                                   ELSE "ServiceProblemAlreadyAcknowledgedError", 0)
               /\ (call[c].pc = "done" /\ call[c].result.kind = "return")
                    => ~call[c].entity.acknowledged /\ call[c].entity.state # 0)
    /\ [][\A c \in Callers :
            (call[c].op \in AckOps /\ call'[c].pc # "idle")
            => /\ call'[c].entity = call[c].entity
               /\ (call[c].pc = "done" /\ call[c].result.kind = "return"
                     /\ call'[c] # call[c])
                    => /\ call'[c].pc = "lock"
                       /\ call'[c].requests = call[c].requests + 1]_vars

\* a Service in state 2 was acknowledged twice: the second call also went to the
\* transport and returned
C29_Witness ==
    \E c \in Callers :
        /\ call[c].pc = "done" /\ call[c].op = "Service_acknowledge"
        /\ call[c].requests = 2
        /\ call[c].entity = [kind |-> "service", acknowledged |-> FALSE, state |-> 2]
        /\ call[c].result = Returned(PyTrue)

(***************************************************************************)
(* Properties of cancellation (SpecCancel).                                *)
(***************************************************************************)
Cancelled(c) == call[c].pc = "done" /\ call[c].transport = Raised("CancelledError", 0)

\* C21: the step that cancels a call waiting for the lock, in flight or asleep
\* ends the call with no further attempt, leaves no response context open and
\* frees the lock if the call held it; a cancelled call holds neither the lock
\* nor a response, and a response is held only by a call that is asleep.
C21_CancellationReleases ==
    /\ [][\A c \in Callers :
            (call[c].pc \in {"lock", "attempt", "sleeping"}
              /\ call'[c].transport = Raised("CancelledError", 0))
            => /\ call'[c].pc = "done"
               /\ call'[c].outcomes = call[c].outcomes
               /\ ~call'[c].response_open
               /\ ratelimit_lock = c => ratelimit_lock' = "free"
               /\ ratelimit_lock # c => ratelimit_lock' = ratelimit_lock]_vars
    /\ [](\A c \in Callers :
            /\ Cancelled(c) => ratelimit_lock # c /\ ~call[c].response_open
            /\ call[c].response_open => call[c].pc = "sleeping")

\* a call was cancelled in the 60 s sleep after a 429, with the response still
\* open, and the caller that was waiting has taken the lock
C21_Witness ==
    /\ Cancelled("c1") /\ Attempts("c1") = 1
    /\ IsStatus(call["c1"].outcomes[1], 429)
    /\ call["c1"].sleeps = << <<60>> >>
    /\ ratelimit_lock = "c2" /\ call["c2"].pc = "attempt"

(***************************************************************************)
(* Properties of credential rotation (SpecRotate).                         *)
(***************************************************************************)
\* C27: method, url and keyword arguments of a request are built when request
\* is called, from the credential the transport has then; no later step of the
\* call changes them; and every attempt of the call hands exactly these keyword
\* arguments to the session, whatever the credential has become.
C27_RequestBuiltOncePerCall ==
    /\ [][\A c \in Callers :
            /\ (call[c].pc = "idle" /\ call'[c].pc = "lock")
                 => call'[c].kwargs = build_kwargs(client.auth, call'[c].args)
            /\ (call[c].pc \in {"lock", "attempt", "sleeping"})
                 => /\ call'[c].kwargs = call[c].kwargs
                    /\ call'[c].method = call[c].method
                    /\ call'[c].url = call[c].url]_vars
    /\ [](\A c \in Callers :
            /\ Len(call[c].sent) = Attempts(c)
            /\ \A k \in 1..Len(call[c].sent) : call[c].sent[k] = call[c].kwargs)

\* the secret was replaced and set_auth called while a request slept between
\* its attempts: its second attempt was sent with the old credential
C27_Witness ==
    \E c \in Callers :
        /\ Len(call[c].sent) = 2
        /\ client.auth = APIAuth(S_username, S_secret_rotated)
        /\ call[c].sent[1] = call[c].sent[2]
        /\ call[c].sent[2]["headers"].dict["Authorization"]
              = to_header(APIAuth(S_username, S_secret))
        /\ call[c].sleeps[1] = <<1>>

(***************************************************************************)
(* Properties of the context manager (SpecContext).                        *)
(***************************************************************************)
\* the exceptions that escape the body in the step that leaves the context
BodyRaised ==
    {call[c].result.error : c \in {d \in Callers : /\ call[d].pc = "done"
                                                     /\ call[d].result.kind = "raise"
                                                     /\ call'[d].pc = "idle"}}

\* C30: the step that leaves "async with client" calls HTTPClient.close once
\* and leaves the current session closed; when the body raised, that exception
\* goes on to the caller, and when it did not, none does.  After the exit close
\* has been called exactly once.
C30_ContextExitClosesOnce ==
    /\ [][(client.context = "inside" /\ client'.context = "exited")
            => /\ client'.close_calls = client.close_calls + 1
               /\ client'.sessions[client'.session].closed
               /\ BodyRaised = {} => client'.propagated = "none"
               /\ \A e \in BodyRaised : client'.propagated = e]_vars
    /\ [](client.context = "exited" => client.close_calls = 1)

\* the body raised HostFetchError: the session is closed, close was called once
\* and HostFetchError reached the caller
C30_Witness ==
    /\ client.context = "exited"
    /\ client.propagated = "HostFetchError"
    /\ client.close_calls = 1
    /\ client.sessions[1].closed
====
